---------------------------- MODULE Spec2Model ----------------------------
(***************************************************************************)
(* A model of typi (src/typi/__main__.py), the local Typst package         *)
(* installer: the closure collector collect_files, the exclude filter,     *)
(* the manifest check, install_package and the copy loop, and main's       *)
(* dispatch on the `path` argument.                                        *)
(*                                                                         *)
(* Strings are sequences of one-character strings, so that the string      *)
(* operations of the code ("@" in str(p), Path.suffix, fnmatch, lstrip,    *)
(* startswith) are computed character by character.  A resolved, absolute  *)
(* path is the sequence of its components, each a string: /p/s/a.typ is    *)
(* << <<"p">>, <<"s">>, <<"a",".","t","y","p">> >>.  The modelled file     *)
(* system holds no symbolic links, so Path.resolve() is the lexical        *)
(* normalisation of "." and "..".                                          *)
(***************************************************************************)
EXTENDS Naturals, Sequences, FiniteSets, TLC

VARIABLES
    files,        \* the regular files that exist in the local file system
    dirs,         \* the directories that exist in the local file system
    repoFiles,    \* the files of the remote repository, as a checkout at /p holds them
    repoDirs,     \* the directories of the remote repository, likewise
    text,         \* text[p]: the directives of file p, in textual order
    argPath,      \* main: args.path
    argList,      \* main: args.list
    argUpdate,    \* main: args.update, install_package: update
    gitInstalled, \* whether shutil.which("git") finds git
    cloneUrl,     \* the url handed to `git clone`, <<"-">> before any clone
    package_path, \* install_package: package_path, <<"?">> before the call
    toml,         \* what tomllib.load gives for the package's typst.toml
    config,       \* install_package: config (check_package's result)
    cacheDirs,    \* directories that exist under the local package cache
    cacheFiles,   \* files that exist under the local package cache
    writes,       \* history: every cache path created or written by this run
    discovered,   \* collect_files: discovered
    stack,        \* collect_files: stack
    marked,       \* history: the paths given to discovered.add, in order
    importPushed, \* history: the paths pushed as entrypoint or import target
    fileset,      \* install_package: files
    todo,         \* copy_package_files: the files the loop has yet to visit
    printed,      \* what the run printed: "", "skip", "installed", "updated", "list"
    err,          \* the exception that ended the run, or NoErr
    pc            \* the position of the run

vars == <<files, dirs, repoFiles, repoDirs, text, argPath, argList, argUpdate, gitInstalled, cloneUrl,
          package_path, toml, config, cacheDirs, cacheFiles, writes,
          discovered, stack, marked, importPushed, fileset, todo, printed,
          err, pc>>

-----------------------------------------------------------------------------
(* Bounds of the model.                                                    *)

\* The most directives one source file holds.
MaxRefs == 2
\* The most directives one source file holds in the install specification.
MaxInstallRefs == 1
\* The most exclude patterns a manifest lists.
MaxExcludes == 1

-----------------------------------------------------------------------------
(* Strings.                                                                *)

S_typ == <<".", "t", "y", "p">>
S_png == <<".", "p", "n", "g">>
S_m_typ == <<"m">> \o S_typ
S_a_typ == <<"a">> \o S_typ
S_b_typ == <<"b", "@">> \o S_typ
S_o_typ == <<"o">> \o S_typ
S_e_typ == <<"e">> \o S_typ
S_d_png == <<"d">> \o S_png
S_l_png == <<"l">> \o S_png
S_toml == <<"t", "y", "p", "s", "t", ".", "t", "o", "m", "l">>
S_readme == <<"R", "E", "A", "D", "M", "E", ".", "m", "d">>
S_license == <<"L", "I", "C", "E", "N", "S", "E">>
S_assets == <<"a", "s", "s", "e", "t", "s">>
S_gitplus == <<"g", "i", "t", "+">>

\* sep.join(parts)
RECURSIVE Join(_, _)
Join(parts, sep) ==
    IF parts = <<>> THEN <<>>
    ELSE IF Len(parts) = 1 THEN Head(parts)
    ELSE Head(parts) \o sep \o Join(Tail(parts), sep)

\* c in s
Contains(s, c) == \E i \in 1..Len(s) : s[i] = c

\* s.startswith(prefix)
StartsWith(s, prefix) ==
    /\ Len(prefix) <= Len(s)
    /\ SubSeq(s, 1, Len(prefix)) = prefix

\* s.lstrip(chars): drops leading characters while they are among `chars`
RECURSIVE LStrip(_, _)
LStrip(s, chars) ==
    IF s # <<>> /\ Contains(chars, Head(s)) THEN LStrip(Tail(s), chars) ELSE s

\* the components of a path string: split on "/", "" and "." dropped
RECURSIVE SplitFrom(_, _, _)
SplitFrom(s, i, cur) ==
    IF i > Len(s)
    THEN IF cur = <<>> \/ cur = <<".">> THEN <<>> ELSE <<cur>>
    ELSE IF s[i] = "/"
         THEN (IF cur = <<>> \/ cur = <<".">> THEN <<>> ELSE <<cur>>)
              \o SplitFrom(s, i + 1, <<>>)
         ELSE SplitFrom(s, i + 1, Append(cur, s[i]))

Split(s) == SplitFrom(s, 1, <<>>)

IsAbsolute(s) == s # <<>> /\ s[1] = "/"

-----------------------------------------------------------------------------
(* pathlib.                                                                *)

\* Path.resolve() of an absolute path without symbolic links: ".." removes
\* the component before it, and is dropped at the root.
RECURSIVE Normalize(_, _)
Normalize(parts, acc) ==
    IF parts = <<>> THEN acc
    ELSE IF Head(parts) = <<".", ".">>
         THEN Normalize(Tail(parts),
                        IF acc = <<>> THEN <<>> ELSE SubSeq(acc, 1, Len(acc) - 1))
         ELSE Normalize(Tail(parts), Append(acc, Head(parts)))

\* (base / rel).resolve(), base a resolved absolute path, rel a path string
JoinResolve(base, rel) ==
    IF IsAbsolute(rel) THEN Normalize(Split(rel), <<>>)
    ELSE Normalize(base \o Split(rel), <<>>)

\* str(path)
PathStr(path) == IF path = <<>> THEN <<"/">> ELSE <<"/">> \o Join(path, <<"/">>)

\* path.parent
Parent(path) == IF path = <<>> THEN <<>> ELSE SubSeq(path, 1, Len(path) - 1)

\* the index of the last "." of a name, 0 when it has none
RECURSIVE RFindDot(_, _)
RFindDot(name, i) ==
    IF i = 0 THEN 0 ELSE IF name[i] = "." THEN i ELSE RFindDot(name, i - 1)

\* path.suffix: from the last "." of the final component, when that dot is
\* neither its first nor its last character
Suffix(path) ==
    IF path = <<>> THEN <<>>
    ELSE LET name == path[Len(path)]
             i == RFindDot(name, Len(name))
         IN IF 1 < i /\ i < Len(name) THEN SubSeq(name, i, Len(name)) ELSE <<>>

\* whether path.relative_to(root) succeeds (it raises ValueError otherwise)
IsUnder(path, root) ==
    /\ Len(root) <= Len(path)
    /\ SubSeq(path, 1, Len(root)) = root

\* path.relative_to(root), for a path under root
RelativeTo(path, root) == SubSeq(path, Len(root) + 1, Len(path))

\* rel.as_posix()
AsPosix(rel) == IF rel = <<>> THEN <<".">> ELSE Join(rel, <<"/">>)

\* path.exists() in the source file system
Exists(path) == path \in files \/ path \in dirs

\* the proper ancestors of a path, the root included
Ancestors(path) == {SubSeq(path, 1, n) : n \in 0..(Len(path) - 1)}

-----------------------------------------------------------------------------
(* fnmatch.fnmatch(name, pat) on POSIX (no case folding): "*" matches any  *)
(* run of characters, "/" included, "?" matches one character, every other *)
(* character matches itself.  The patterns of the model hold no "[".       *)

RECURSIVE Fnmatch(_, _)
Fnmatch(name, pat) ==
    IF pat = <<>> THEN name = <<>>
    ELSE IF Head(pat) = "*"
         THEN \/ Fnmatch(name, Tail(pat))
              \/ name # <<>> /\ Fnmatch(Tail(name), pat)
         ELSE /\ name # <<>>
              /\ (Head(pat) = "?" \/ Head(pat) = Head(name))
              /\ Fnmatch(Tail(name), Tail(pat))

-----------------------------------------------------------------------------
(* The universe of the model: one package at /p, the cache at /c.          *)

Root == << <<"p">> >>
P_main == Root \o <<S_m_typ>>
P_a == Root \o << <<"s">>, S_a_typ >>
P_b == Root \o <<S_b_typ>>
P_d == Root \o <<S_d_png>>
P_o == <<S_o_typ>>
P_toml == Root \o <<S_toml>>
P_readme == Root \o <<S_readme>>
P_license == Root \o <<S_license>>
P_assets == Root \o <<S_assets>>
P_logo == P_assets \o <<S_l_png>>
P_sub == P_assets \o << <<"u">> >>
P_tpl == Root \o << <<"t">>, S_e_typ >>

Imp(rel) == [kind |-> "import", rel |-> rel]
Img(rel) == [kind |-> "image", rel |-> rel]
Rd(rel) == [kind |-> "read", rel |-> rel]

R_a == <<"s", "/">> \o S_a_typ
R_o == <<".", ".", "/">> \o S_o_typ
R_up_m == <<".", ".", "/">> \o S_m_typ
R_up_d == <<".", ".", "/">> \o S_d_png
R_logo == S_assets \o <<"/">> \o S_l_png

\* The directives a file of the model may hold.
DirectivesOf(p) ==
    IF p = P_main
    THEN {Imp(R_a), Imp(S_b_typ), Imp(R_o), Img(S_d_png), Rd(R_a)}
    ELSE IF p = P_a
    THEN {Imp(R_up_m), Imp(S_m_typ), Img(R_up_d), Imp(R_up_d)}
    ELSE IF p = P_b
    THEN {Imp(S_d_png)}
    ELSE {}

SeqsUpTo(S, n) == UNION {[1..k -> S] : k \in 0..n}

NoErr == [kind |-> "none", msg |-> "", path |-> <<>>]
Raise(kind, msg, path) == [kind |-> kind, msg |-> msg, path |-> path]

NoUrl == <<"-">>
LocalPath == << <<"c">> >>

\* A manifest: whether it has a [package] table, which of the required keys
\* the table holds, its exclude list and its [template] table, if any.
ManifestWith(hasPackage, keys, excl, tpl) ==
    [hasPackage |-> hasPackage,
     keys |-> keys,
     name |-> <<"n">>,
     version |-> <<"1">>,
     entrypoint |-> S_m_typ,
     exclude |-> excl,
     template |-> tpl]

RequiredKeys == {"name", "version", "entrypoint"}

\* A complete manifest for the package at /p.
Manifest(excl, tpl) ==
    [hasPackage |-> TRUE,
     keys |-> RequiredKeys,
     name |-> <<"n">>,
     version |-> <<"1">>,
     entrypoint |-> S_m_typ,
     exclude |-> excl,
     template |-> tpl]

\* The directories a set of paths lies in.
DirsOf(fs) == UNION {Ancestors(f) : f \in fs}

NoPath == << <<"?">> >>

\* The state before the run: the package tree (files fs, directories xdirs
\* besides those the files lie in), its manifest, the command line, whether
\* git is installed, whether the cache root exists, and the version
\* directories already in the cache.  The tree is a local directory at /p,
\* or, when the argument names a repository, the contents of that
\* repository, /p not existing yet.
Setup(fs, xdirs, tm, arg, lst, upd, git, cacheRoot, installed) ==
    /\ IF StartsWith(arg, S_gitplus)
       THEN /\ files = {}
            /\ dirs = {<<>>}
            /\ repoFiles = fs
            /\ repoDirs = (DirsOf(fs \cup xdirs) \cup xdirs \cup {Root}) \ {<<>>}
       ELSE /\ files = fs
            /\ dirs = DirsOf(fs \cup xdirs) \cup xdirs \cup {<<>>, Root}
            /\ repoFiles = {}
            /\ repoDirs = {}
    /\ toml = tm
    /\ argPath = arg
    /\ argList = lst
    /\ argUpdate = upd
    /\ gitInstalled = git
    /\ cloneUrl = NoUrl
    /\ cacheDirs = IF cacheRoot
                   THEN DirsOf(installed) \cup installed \cup {<<>>, LocalPath}
                   ELSE {<<>>}
    /\ cacheFiles = {}
    /\ writes = {}
    /\ discovered = {}
    /\ stack = <<>>
    /\ marked = <<>>
    /\ importPushed = {}
    /\ fileset = {}
    /\ todo = {}
    /\ printed = ""
    /\ err = NoErr

\* clone_repository_and_install, lines 131-136: install_package runs inside
\* `with tempfile.TemporaryDirectory()`, so when it returns or raises the
\* temporary directory is removed before the run ends
InClone == cloneUrl # NoUrl
Raised == IF InClone THEN "exit_clone" ELSE "error"
Returned == IF InClone THEN "exit_clone" ELSE "done"

-----------------------------------------------------------------------------
(* collect_files                                                           *)

\* the text of a file; a file the model gives no directives is empty
TextOf(p) == IF p \in DOMAIN text THEN text[p] ELSE <<>>

\* IMPORT_RE.findall(text): the paths of the import directives, in order
ImportRefs(t) == SelectSeq(t, LAMBDA d : d.kind = "import")

\* ASSET_RE.findall(text): the image(...) and read(...) directives, in order
AssetRefs(t) == SelectSeq(t, LAMBDA d : d.kind \in {"image", "read"})

\* "@" in str(current)
IsExternal(current) == Contains(PathStr(current), "@")

\* current in discovered
AlreadyDiscoveredNever(current) == FALSE
AlreadyDiscovered(current) == current \in discovered

\* current.suffix != ".typ"
IsLeaf(current) == Suffix(current) # S_typ

\* the loop over IMPORT_RE.findall(text): every import target is pushed,
\* resolved against the directory of the file that holds the directive
ImportTargetsFromRoot(current) ==
    LET refs == ImportRefs(TextOf(current))
    IN [i \in 1..Len(refs) |-> JoinResolve(package_path, refs[i].rel)]
ImportTargets(current) ==
    LET refs == ImportRefs(TextOf(current))
    IN [i \in 1..Len(refs) |-> JoinResolve(Parent(current), refs[i].rel)]

\* the loop over ASSET_RE.findall(text): a target is pushed when it exists
AssetTargets(current) ==
    LET refs == AssetRefs(TextOf(current))
        all == [i \in 1..Len(refs) |-> JoinResolve(Parent(current), refs[i].rel)]
    IN SelectSeq(all, Exists)

Current == stack[Len(stack)]
Popped == SubSeq(stack, 1, Len(stack) - 1)

Range(s) == {s[i] : i \in 1..Len(s)}

frame == <<files, dirs, repoFiles, repoDirs, text, argPath, argList, argUpdate, gitInstalled, cloneUrl,
           package_path, toml, config, cacheDirs, cacheFiles, writes,
           fileset, todo, printed>>

\* install_package, lines 98-100, and collect_files, lines 19-20: the
\* entrypoint is read from the manifest and the traversal starts from it
CollectStart ==
    /\ pc = "call_collect"
    /\ IF "entrypoint" \notin config[1].keys
       THEN /\ err' = Raise("KeyError", "entrypoint", <<>>)
            /\ pc' = Raised
            /\ UNCHANGED <<stack, discovered, marked, importPushed>>
       ELSE LET entry == JoinResolve(package_path, config[1].entrypoint)
            IN /\ stack' = <<entry>>
               /\ discovered' = {}
               /\ marked' = <<>>
               /\ importPushed' = {entry}
               /\ pc' = "collect"
               /\ err' = err
    /\ UNCHANGED frame

\* lines 23-25: a path whose string holds "@" is dropped
CollectSkipExternal ==
    /\ pc = "collect" /\ stack # <<>>
    /\ IsExternal(Current)
    /\ stack' = Popped
    /\ UNCHANGED <<discovered, marked, importPushed, err, pc>>
    /\ UNCHANGED frame

\* lines 26-27: a path already discovered is dropped
CollectSkipDiscovered ==
    /\ pc = "collect" /\ stack # <<>>
    /\ ~IsExternal(Current)
    /\ AlreadyDiscovered(Current)
    /\ stack' = Popped
    /\ UNCHANGED <<discovered, marked, importPushed, err, pc>>
    /\ UNCHANGED frame

\* lines 28-31: a missing path raises FileNotFoundError; building its message
\* raises ValueError when the path is not under package_root
CollectMissing ==
    /\ pc = "collect" /\ stack # <<>>
    /\ ~IsExternal(Current)
    /\ ~AlreadyDiscovered(Current)
    /\ ~Exists(Current)
    /\ err' = IF IsUnder(Current, package_path)
              THEN Raise("FileNotFoundError", "Missing file",
                         AsPosix(RelativeTo(Current, package_path)))
              ELSE Raise("ValueError", "not in the subpath", PathStr(Current))
    /\ pc' = Raised
    /\ stack' = Popped
    /\ UNCHANGED <<discovered, marked, importPushed>>
    /\ UNCHANGED frame

\* lines 32-34: a file that is not a .typ source is recorded and not read
CollectLeaf ==
    /\ pc = "collect" /\ stack # <<>>
    /\ ~IsExternal(Current)
    /\ ~AlreadyDiscovered(Current)
    /\ Exists(Current)
    /\ IsLeaf(Current)
    /\ discovered' = discovered \cup {Current}
    /\ marked' = Append(marked, Current)
    /\ stack' = Popped
    /\ UNCHANGED <<importPushed, err, pc>>
    /\ UNCHANGED frame

\* lines 32-46: a .typ source is recorded and read; its import targets are
\* pushed, then its asset targets that exist
CollectScan ==
    /\ pc = "collect" /\ stack # <<>>
    /\ ~IsExternal(Current)
    /\ ~AlreadyDiscovered(Current)
    /\ Exists(Current)
    /\ ~IsLeaf(Current)
    /\ discovered' = discovered \cup {Current}
    /\ marked' = Append(marked, Current)
    /\ IF Current \in files
       THEN /\ stack' = Popped \o ImportTargets(Current) \o AssetTargets(Current)
            /\ importPushed' = importPushed \cup Range(ImportTargets(Current))
            /\ UNCHANGED <<err, pc>>
       ELSE /\ err' = Raise("IsADirectoryError", "read_text", PathStr(Current))
            /\ pc' = Raised
            /\ stack' = Popped
            /\ UNCHANGED importPushed
    /\ UNCHANGED frame

\* line 47: the stack is empty and discovered is returned
CollectReturn ==
    /\ pc = "collect" /\ stack = <<>>
    /\ pc' = "collected"
    /\ UNCHANGED <<discovered, stack, marked, importPushed, err>>
    /\ UNCHANGED frame

\* The texts a file may hold: a file that does not exist holds none.
TextsOf(p, n) == IF p \in files THEN SeqsUpTo(DirectivesOf(p), n) ELSE {<<>>}

\* collect_files on every file graph of the universe, entrypoint /p/m.typ
InitCollect ==
    /\ \E fs \in SUBSET {P_main, P_a, P_b, P_d, P_o} :
          Setup(fs \cup {P_toml}, {}, Manifest(<<>>, <<>>), PathStr(Root),
                FALSE, FALSE, TRUE, TRUE, {})
    /\ \E tm \in TextsOf(P_main, MaxRefs), ta \in TextsOf(P_a, MaxRefs),
          tb \in TextsOf(P_b, MaxRefs) :
          text = (P_main :> tm) @@ (P_a :> ta) @@ (P_b :> tb)
    /\ package_path = Root
    /\ config = <<toml>>
    /\ pc = "call_collect"

NextCollect ==
    \/ CollectStart
    \/ CollectSkipExternal
    \/ CollectSkipDiscovered
    \/ CollectMissing
    \/ CollectLeaf
    \/ CollectScan
    \/ CollectReturn

SpecCollect == InitCollect /\ [][NextCollect]_vars

\* collect_files on the file graphs inside the package: cycles, diamonds,
\* missing files, "@" paths, assets with the source suffix
InitCycleGraphs ==
    /\ \E fs \in SUBSET {P_main, P_a, P_d} :
          Setup(fs \cup {P_toml}, {}, Manifest(<<>>, <<>>), PathStr(Root),
                FALSE, FALSE, TRUE, TRUE, {})
    /\ \E tm \in IF P_main \in files
                 THEN SeqsUpTo(DirectivesOf(P_main) \ {Imp(R_o)}, MaxRefs)
                 ELSE {<<>>},
          ta \in TextsOf(P_a, MaxRefs) :
          text = (P_main :> tm) @@ (P_a :> ta) @@ (P_b :> <<>>)
    /\ package_path = Root
    /\ config = <<toml>>
    /\ pc = "call_collect"

\* The loop of collect_files runs on: no step of it waits on anything.
FairCollect == InitCycleGraphs /\ [][NextCollect]_vars /\ WF_vars(NextCollect)

-----------------------------------------------------------------------------
(* main, clone_repository_and_install, check_package, install_package      *)

collectVars == <<discovered, stack, marked, importPushed>>
sourceVars == <<files, dirs, repoFiles, repoDirs, text, toml>>
argVars == <<argPath, argList, argUpdate, gitInstalled>>
cacheVars == <<cacheDirs, cacheFiles, writes>>

\* The repositories `git clone` can fetch; each holds the tree repoFiles,
\* repoDirs.  The temporary directory of a clone is /p.
Remotes == {<<"h", ":", "r">>, <<"g", "i", "t", "@", "h", ":", "r">>}

\* main, line 182: str(args.path).lstrip("git+")
UrlOf(arg) == LStrip(arg, S_gitplus)

\* The checkout's own directory, /p/.git.
P_git == Root \o << <<".", "g", "i", "t">> >>

\* main, lines 155-158: the cache root is made, with its parents, when it
\* does not exist; every run of main starts with it
MakeCacheRoot ==
    LET made == (Ancestors(LocalPath) \cup {LocalPath}) \ cacheDirs
    IN /\ cacheDirs' = cacheDirs \cup made
       /\ writes' = writes \cup made
       /\ UNCHANGED cacheFiles

\* main, lines 155-158 and 174-175: no path and no --list is a usage error
MainUsage ==
    /\ pc = "main"
    /\ MakeCacheRoot
    /\ argPath = <<>> /\ ~argList
    /\ err' = Raise("SystemExit", "Argument 'path' must be specified", <<>>)
    /\ pc' = "error"
    /\ UNCHANGED <<sourceVars, argVars, collectVars, cloneUrl,
                   package_path, config, fileset, todo, printed>>

\* main, lines 155-158 and 176-178: no path and --list prints the installed
\* packages
MainList ==
    /\ pc = "main"
    /\ MakeCacheRoot
    /\ argPath = <<>> /\ argList
    /\ printed' = "list"
    /\ pc' = "done"
    /\ UNCHANGED <<sourceVars, argVars, collectVars, cloneUrl,
                   package_path, config, fileset, todo, err>>

\* main, lines 155-158 and 180-184: a path that starts with "git+" is cloned
MainGit ==
    /\ pc = "main"
    /\ MakeCacheRoot
    /\ argPath # <<>>
    /\ StartsWith(argPath, S_gitplus)
    /\ cloneUrl' = UrlOf(argPath)
    /\ pc' = "clone"
    /\ UNCHANGED <<sourceVars, argVars, collectVars,
                   package_path, config, fileset, todo, printed, err>>

\* main, lines 155-158 and 185: any other path is resolved and installed
MainLocal ==
    /\ pc = "main"
    /\ MakeCacheRoot
    /\ argPath # <<>>
    /\ ~StartsWith(argPath, S_gitplus)
    /\ package_path' = JoinResolve(<<>>, argPath)
    /\ pc' = "install"
    /\ UNCHANGED <<sourceVars, argVars, collectVars, cloneUrl,
                   config, fileset, todo, printed, err>>

\* clone_repository_and_install, lines 129-136, up to the call of
\* install_package: without git nothing is made; else the temporary
\* directory is made and `git clone` fills it with the repository's tree
\* and .git, or fails and leaves it empty
Clone ==
    /\ pc = "clone"
    /\ IF ~gitInstalled
       THEN /\ err' = Raise("RuntimeError", "Git is not installed, cannot proceed", <<>>)
            /\ pc' = "error"
            /\ UNCHANGED <<package_path, files, dirs>>
       ELSE IF cloneUrl \notin Remotes
       THEN /\ err' = Raise("CalledProcessError", "git clone", cloneUrl)
            /\ pc' = "exit_clone"
            /\ dirs' = dirs \cup {Root}
            /\ UNCHANGED <<package_path, files>>
       ELSE /\ package_path' = Root
            /\ files' = files \cup repoFiles
            /\ dirs' = dirs \cup repoDirs \cup {Root, P_git}
            /\ pc' = "install"
            /\ UNCHANGED err
    /\ UNCHANGED <<repoFiles, repoDirs, text, toml, argVars, cacheVars,
                   collectVars, cloneUrl, config, fileset, todo, printed>>

\* clone_repository_and_install, line 131: TemporaryDirectory.__exit__
\* removes the temporary directory and all it holds, whether the block
\* ended by a return or by an exception, which then propagates
CloneExit ==
    /\ pc = "exit_clone"
    /\ files' = {f \in files : ~IsUnder(f, Root)}
    /\ dirs' = {d \in dirs : ~IsUnder(d, Root)}
    /\ pc' = IF err = NoErr THEN "done" ELSE "error"
    /\ UNCHANGED <<repoFiles, repoDirs, text, toml, argVars, cacheVars,
                   collectVars, cloneUrl, package_path, config, fileset, todo,
                   printed, err>>

\* check_package, lines 62-75, called at line 87
CheckPackage ==
    /\ pc = "install"
    /\ IF ~Exists(package_path)
       THEN /\ err' = Raise("FileNotFoundError", "Directory does not exist", <<>>)
            /\ pc' = Raised
            /\ UNCHANGED config
       ELSE IF ~Exists(package_path \o <<S_toml>>)
       THEN /\ err' = Raise("FileNotFoundError", "No typst.toml in this directory", <<>>)
            /\ pc' = Raised
            /\ UNCHANGED config
       ELSE IF ~toml.hasPackage
       THEN /\ err' = Raise("RuntimeError", "Not a valid typst.toml", <<>>)
            /\ pc' = Raised
            /\ UNCHANGED config
       ELSE /\ config' = <<toml>>
            /\ pc' = "checked"
            /\ UNCHANGED err
    /\ UNCHANGED <<sourceVars, argVars, cacheVars, collectVars, cloneUrl,
                   package_path, fileset, todo, printed>>

\* line 90: local_path / pkg_config["name"] / pkg_config["version"]
VersionSubpath == LocalPath \o <<config[1].name, config[1].version>>

\* line 91: version_subpath.exists() and not update
ShouldSkipOnUpdate == VersionSubpath \in cacheDirs /\ argUpdate
ShouldSkip == VersionSubpath \in cacheDirs /\ ~argUpdate

\* install_package, lines 88-97: the destination is named after the
\* manifest's name and version; an installed version is skipped unless
\* update is set
SkipCheck ==
    /\ pc = "checked"
    /\ IF "name" \notin config[1].keys
       THEN /\ err' = Raise("KeyError", "name", <<>>)
            /\ pc' = Raised
            /\ UNCHANGED printed
       ELSE IF "version" \notin config[1].keys
       THEN /\ err' = Raise("KeyError", "version", <<>>)
            /\ pc' = Raised
            /\ UNCHANGED printed
       ELSE IF ShouldSkip
       THEN /\ printed' = "skip"
            /\ pc' = Returned
            /\ UNCHANGED err
       ELSE /\ pc' = "call_collect"
            /\ UNCHANGED <<err, printed>>
    /\ UNCHANGED <<sourceVars, argVars, cacheVars, collectVars, cloneUrl,
                   package_path, config, fileset, todo>>

\* apply_excludes, line 56: any(fnmatch(rel, pat) for pat in excludes)
MatchesAny(rel, excludes) ==
    \E i \in 1..Len(excludes) : Fnmatch(rel, excludes[i])

\* apply_excludes, lines 53-59: the files whose package-relative path
\* matches no pattern
KeptByName(fs, root, excludes) ==
    {path \in fs : ~MatchesAny(path[Len(path)], excludes)}
Kept(fs, root, excludes) ==
    {path \in fs : ~MatchesAny(AsPosix(RelativeTo(path, root)), excludes)}

\* install_package, lines 99 and 101, apply_excludes, lines 50-59: with no
\* pattern the set is returned as it is; else relative_to raises ValueError
\* on a file outside the package root
ApplyExcludes ==
    /\ pc = "collected"
    /\ LET excludes == config[1].exclude
       IN IF excludes = <<>>
          THEN /\ fileset' = discovered
               /\ pc' = "aux"
               /\ UNCHANGED err
          ELSE IF \E path \in discovered : ~IsUnder(path, package_path)
          THEN /\ \E path \in discovered :
                     /\ ~IsUnder(path, package_path)
                     /\ err' = Raise("ValueError", "not in the subpath",
                                     PathStr(path))
               /\ pc' = Raised
               /\ UNCHANGED fileset
          ELSE /\ fileset' = Kept(discovered, package_path, excludes)
               /\ pc' = "aux"
               /\ UNCHANGED err
    /\ UNCHANGED <<sourceVars, argVars, cacheVars, collectVars, cloneUrl,
                   package_path, config, todo, printed>>

\* assets.glob("*"): the direct entries of a directory
Glob(dir) == {p \in files \cup dirs : p # <<>> /\ Parent(p) = dir}

\* lines 102-118: the files added whatever the traversal found
Auxiliary ==
    {JoinResolve(package_path, S_toml)}
    \cup (IF Exists(package_path \o <<S_readme>>)
          THEN {JoinResolve(package_path, S_readme)} ELSE {})
    \cup (IF Exists(package_path \o <<S_license>>)
          THEN {JoinResolve(package_path, S_license)} ELSE {})
    \cup (IF Exists(package_path \o <<S_assets>>)
          THEN Glob(package_path \o <<S_assets>>) ELSE {})
    \cup {JoinResolve(JoinResolve(package_path, config[1].template[i].path),
                      config[1].template[i].entrypoint) :
              i \in 1..Len(config[1].template)}

\* install_package, lines 102-119: the auxiliary files are added and the
\* set is handed to copy_package_files
AddAuxiliary ==
    /\ pc = "aux"
    /\ fileset' = fileset \cup Auxiliary
    /\ todo' = fileset'
    /\ pc' = "copy"
    /\ UNCHANGED <<sourceVars, argVars, cacheVars, collectVars, cloneUrl,
                   package_path, config, printed, err>>

\* copy_package_files, lines 79-83, one iteration, the set being visited in
\* no fixed order: relative_to raises ValueError outside the package root;
\* the parent directories are made; copy2 raises on a source that is
\* missing or a directory
CopyOne ==
    /\ pc = "copy"
    /\ \E src \in todo :
          IF ~IsUnder(src, package_path)
          THEN /\ err' = Raise("ValueError", "not in the subpath", PathStr(src))
               /\ pc' = Raised
               /\ UNCHANGED <<cacheVars, todo>>
          ELSE LET dst == VersionSubpath \o RelativeTo(src, package_path)
                   made == (Ancestors(dst) \ cacheDirs)
               IN /\ cacheDirs' = cacheDirs \cup made
                  /\ IF src \in files
                     THEN /\ cacheFiles' = cacheFiles \cup {dst}
                          /\ writes' = writes \cup made \cup {dst}
                          /\ todo' = todo \ {src}
                          /\ UNCHANGED <<err, pc>>
                     ELSE /\ err' = Raise(IF src \in dirs THEN "IsADirectoryError"
                                          ELSE "FileNotFoundError",
                                          "copy2", PathStr(src))
                          /\ pc' = Raised
                          /\ writes' = writes \cup made
                          /\ UNCHANGED <<cacheFiles, todo>>
    /\ UNCHANGED <<sourceVars, argVars, collectVars, cloneUrl,
                   package_path, config, fileset, printed>>

\* install_package, lines 120-125: every file is copied
Finish ==
    /\ pc = "copy"
    /\ todo = {}
    /\ printed' = IF VersionSubpath \in cacheDirs /\ argUpdate
                  THEN "updated" ELSE "installed"
    /\ pc' = Returned
    /\ UNCHANGED <<sourceVars, argVars, cacheVars, collectVars, cloneUrl,
                   package_path, config, fileset, todo, err>>

-----------------------------------------------------------------------------
(* The whole program, from main.                                           *)

V1 == LocalPath \o << <<"n">>, <<"1">> >>
V2 == LocalPath \o << <<"n">>, <<"2">> >>

Pat_png == <<"*">> \o S_png
Pat_s == <<"s", "/", "*">>
Pat_assets == S_assets \o <<"/", "*">>
Patterns == {Pat_png, Pat_s, Pat_assets}

Template == [path |-> <<"t">>, entrypoint |-> S_e_typ]

A_local == PathStr(Root)
A_nodir == <<"/", "q">>
A_git == S_gitplus \o <<"h", ":", "r">>
A_gitssh == S_gitplus \o <<"g", "i", "t", "@", "h", ":", "r">>

\* The directives a file may hold in the runs of the whole program.
InstallDirectivesOf(p) ==
    IF p = P_main
    THEN {Imp(R_a), Imp(S_b_typ), Imp(R_o), Img(S_d_png), Img(R_logo)}
    ELSE IF p = P_a THEN {Imp(R_up_d), Imp(R_up_m)}
    ELSE IF p = P_b THEN {Img(S_d_png)}
    ELSE {}

InstallTextsOf(p, n) ==
    IF p \in files THEN SeqsUpTo(InstallDirectivesOf(p), n) ELSE {<<>>}

NoText == (P_main :> <<>>) @@ (P_a :> <<>>) @@ (P_b :> <<>>)

\* The command lines: each way main dispatches, on a plain package, with
\* and without the cache root.
InitArguments ==
    /\ \E arg \in {<<>>, A_local, A_nodir, A_git, A_gitssh},
          lst \in BOOLEAN, upd \in BOOLEAN, git \in BOOLEAN,
          cacheRoot \in BOOLEAN :
          Setup({P_toml, P_main}, {}, Manifest(<<>>, <<>>), arg, lst, upd, git,
                cacheRoot, {})
    /\ text = NoText

\* The manifests: typst.toml absent, without a [package] table, or with any
\* subset of the required keys; installed versions; update or not.
InitManifests ==
    /\ \E fs \in {{P_main}, {P_main, P_toml}}, hp \in BOOLEAN,
          keys \in SUBSET RequiredKeys, arg \in {A_local, A_git},
          upd \in BOOLEAN, installed \in {{}, {V1}, {V2}} :
          Setup(fs, {}, ManifestWith(hp, keys, <<>>, <<>>), arg, FALSE, upd,
                TRUE, TRUE, installed)
    /\ text = NoText

\* The file graphs and exclude lists of a package with a complete manifest;
\* /p/b@.typ, when it exists, is a file whose path holds "@".
InitGraphs ==
    /\ \E fs \in SUBSET {P_a, P_b, P_d, P_o, P_logo},
          excl \in SeqsUpTo(Patterns, MaxExcludes),
          upd \in BOOLEAN, installed \in {{}, {V1}} :
          Setup(fs \cup {P_toml, P_main}, {}, Manifest(excl, <<>>), A_local,
                FALSE, upd, TRUE, TRUE, installed)
    /\ \E tm \in InstallTextsOf(P_main, MaxInstallRefs),
          ta \in InstallTextsOf(P_a, MaxInstallRefs),
          tb \in InstallTextsOf(P_b, MaxInstallRefs) :
          text = (P_main :> tm) @@ (P_a :> ta) @@ (P_b :> tb)

\* The auxiliary files of a package with a complete manifest: README.md,
\* LICENSE, the entries of assets/ (a file, a directory), the template.
InitAuxiliary ==
    /\ \E fs \in SUBSET {P_readme, P_license, P_logo, P_tpl},
          xdirs \in SUBSET {P_sub},
          excl \in {<<>>, <<Pat_assets>>},
          tpl \in {<<>>, <<Template>>}, upd \in BOOLEAN :
          Setup(fs \cup {P_toml, P_main}, xdirs, Manifest(excl, tpl), A_local,
                FALSE, upd, TRUE, TRUE, IF upd THEN {V1} ELSE {})
    /\ \E tm \in {<<>>, <<Img(R_logo)>>} :
          text = (P_main :> tm) @@ (P_a :> <<>>) @@ (P_b :> <<>>)

Init ==
    /\ \/ InitArguments
       \/ InitManifests
       \/ InitGraphs
       \/ InitAuxiliary
    /\ package_path = NoPath
    /\ config = <<>>
    /\ pc = "main"

Next ==
    \/ MainUsage
    \/ MainList
    \/ MainGit
    \/ MainLocal
    \/ Clone
    \/ CloneExit
    \/ CheckPackage
    \/ SkipCheck
    \/ CollectStart
    \/ CollectSkipExternal
    \/ CollectSkipDiscovered
    \/ CollectMissing
    \/ CollectLeaf
    \/ CollectScan
    \/ CollectReturn
    \/ ApplyExcludes
    \/ AddAuxiliary
    \/ CopyOne
    \/ Finish

Spec == Init /\ [][Next]_vars

-----------------------------------------------------------------------------
(* The file graph, read off the file system independently of the loop.     *)

\* The files collect_files has read: the recorded .typ files.
Scanned == {p \in Range(marked) : Suffix(p) = S_typ /\ p \in files}

\* The targets of the import directives of a source file.
ImportEdges(p) ==
    {JoinResolve(Parent(p), d.rel) : d \in {x \in Range(TextOf(p)) : x.kind = "import"}}

\* The targets of the image(...) and read(...) directives of a source file.
AssetEdges(p) ==
    {JoinResolve(Parent(p), d.rel) :
        d \in {x \in Range(TextOf(p)) : x.kind \in {"image", "read"}}}

\* The references followed from a path: those of an existing .typ file, the
\* asset references only when their target exists.
Edges(p) ==
    IF p \in files /\ Suffix(p) = S_typ
    THEN ImportEdges(p) \cup {t \in AssetEdges(p) : Exists(t)}
    ELSE {}

\* The least set that holds S and is closed under Edges.
RECURSIVE Closure(_)
Closure(S) ==
    LET T == S \cup UNION {Edges(p) : p \in S}
    IN IF T = S THEN S ELSE Closure(T)

\* The same, never entering a path whose string holds "@".
RECURSIVE LocalClosure(_)
LocalClosure(S) ==
    LET T == S \cup {t \in UNION {Edges(p) : p \in S} : ~IsExternal(t)}
    IN IF T = S THEN S ELSE LocalClosure(T)

EntryPoint == JoinResolve(Root, S_m_typ)

Terminated == pc \in {"collected", "error"}

HasDuplicates(s) == \E i, j \in 1..Len(s) : i # j /\ s[i] = s[j]

-----------------------------------------------------------------------------
(* Claims about collect_files, checked under SpecCollect and FairCollect.  *)

\* C1 as stated: a returned set is every existing file reachable from the
\* entrypoint by import references and by asset references whose target
\* exists, less the paths whose string holds "@".
C1_ReachableMinusExternal ==
    pc = "collected" =>
        discovered = {p \in Closure({EntryPoint}) : Exists(p) /\ ~IsExternal(p)}

\* C1 amended: a returned set is the set of files reachable from the
\* entrypoint along references that never pass through a path whose string
\* holds "@" (such a path is neither recorded nor read), and each of them
\* exists.
C1_ReachableWithoutEnteringExternal ==
    pc = "collected" =>
        /\ discovered = LocalClosure({p \in {EntryPoint} : ~IsExternal(p)})
        /\ \A p \in discovered : Exists(p)

\* C1 witness: a returned set of three files, from a graph whose entrypoint
\* also imports an "@" path.
C1_Witness ==
    /\ pc = "collected"
    /\ Cardinality(discovered) >= 3
    /\ P_b \in ImportEdges(P_main)

\* C2: collect_files terminates; no path is recorded (and so read) twice;
\* when /p/m.typ and /p/s/a.typ import each other and the traversal
\* returns, both are in the result, each recorded once.
C2_Terminates ==
    /\ <>Terminated
    /\ [](~HasDuplicates(marked))
    /\ []((/\ pc = "collected"
           /\ P_a \in ImportEdges(P_main)
           /\ P_main \in ImportEdges(P_a))
          => (/\ {P_main, P_a} \subseteq discovered
              /\ Cardinality({i \in 1..Len(marked) : marked[i] = P_main}) = 1
              /\ Cardinality({i \in 1..Len(marked) : marked[i] = P_a}) = 1))

\* C2 witness: the traversal of an import cycle has returned.
C2_Witness ==
    /\ pc = "collected"
    /\ P_a \in ImportEdges(P_main)
    /\ P_main \in ImportEdges(P_a)
    /\ {P_main, P_a} \subseteq discovered

\* The import targets of the files read that do not exist and are not "@"
\* paths.
MissingImports ==
    {t \in UNION {ImportEdges(p) : p \in Scanned} : ~Exists(t) /\ ~IsExternal(t)}

\* C3: once a file that was read imports a missing file, the traversal ends
\* in the missing-file error, for targets outside the package root too.
C3_MissingImportRaisesMissingFile ==
    (Terminated /\ MissingImports # {}) =>
        /\ pc = "error"
        /\ err.kind = "FileNotFoundError"
        /\ err.msg = "Missing file"

\* C10: a file that was read had been pushed as the entrypoint or as the
\* target of an import directive, never as an asset only.
C10_AssetsNeverScanned ==
    pc = "collected" => \A p \in Scanned : p \in importPushed

-----------------------------------------------------------------------------
(* Claims about install_package and main, checked under Spec.              *)

\* install_package has been called.
InstallCalled == package_path # NoPath

\* install_package has returned or raised, and the package directory is as
\* it left it.
InstallEnded ==
    /\ InstallCalled
    /\ \/ pc = "exit_clone"
       \/ pc \in {"done", "error"} /\ ~InClone

\* What the run has created or written at or under <cache>/<name>/<version>.
DestWrites ==
    IF config # <<>> /\ {"name", "version"} \subseteq config[1].keys
    THEN {w \in writes : IsUnder(w, VersionSubpath)}
    ELSE {}

\* The files reachable from the manifest's entrypoint along chains that
\* never enter a path whose string holds "@", the entrypoint included.
Reachable == LocalClosure({p \in {JoinResolve(package_path, config[1].entrypoint)} :
                               ~IsExternal(p)})

\* A path's package-relative string matches one of the exclude patterns.
Excluded(p) ==
    /\ IsUnder(p, package_path)
    /\ \E i \in 1..Len(config[1].exclude) :
          Fnmatch(Join(RelativeTo(p, package_path), <<"/">>), config[1].exclude[i])

\* The files install_package adds after filtering, read off the file system:
\* typst.toml, README.md and LICENSE if present, the direct entries of
\* assets/, the entrypoint of the template.
AuxiliaryFiles ==
    {P_toml}
    \cup {p \in {P_readme, P_license} : Exists(p)}
    \cup {p \in files \cup dirs : Len(p) = Len(P_assets) + 1 /\ IsUnder(p, P_assets)}
    \cup (IF config[1].template = <<>> THEN {} ELSE {P_tpl})

\* C4 as stated: in the set handed to the copy step, a reachable file whose
\* package-relative path matches an exclude pattern is absent, and a
\* reachable file that matches none is present.
C4_ExcludedAbsent ==
    pc = "copy" =>
        \A p \in Reachable : IF Excluded(p) THEN p \notin fileset ELSE p \in fileset

\* C4 amended: call a file reachable when a chain of references leads to
\* it from the entrypoint without entering a path whose string holds "@".
\* In the set handed to the copy step, a reachable file whose
\* package-relative path matches an exclude pattern is absent unless it is
\* one of the auxiliary files added after filtering (typst.toml, README.md,
\* LICENSE, a direct entry of assets/, the template entrypoint), a
\* reachable file that matches none is present, and a file that is not
\* reachable (one referenced only from an "@" path, say) is absent unless
\* it is auxiliary.
C4_ExcludedAbsentUnlessAuxiliary ==
    pc = "copy" =>
        /\ \A p \in Reachable :
              IF Excluded(p) THEN (p \in fileset <=> p \in AuxiliaryFiles)
              ELSE p \in fileset
        /\ fileset \subseteq Reachable \cup AuxiliaryFiles

\* C4 witness: /p/s/a.typ is reachable and excluded, and /p/d.png, reachable
\* through it alone, is handed to the copy step.
C4_Witness ==
    /\ pc = "copy"
    /\ P_a \in Reachable /\ Excluded(P_a) /\ P_a \notin fileset
    /\ P_d \in Edges(P_a) /\ P_d \notin Edges(P_main) /\ P_d \in fileset

\* C5: a run of install_package that ends in an error over the manifest or
\* over the file set (a missing manifest, an invalid one, a missing
\* referenced file, an entry that does not exist or is not under the package
\* root) has written nothing at or under <cache>/<name>/<version>; the
\* cache root main makes is not counted.
C5_ErrorsWriteNothing ==
    (InstallEnded /\ err # NoErr /\ err.kind # "IsADirectoryError")
        => DestWrites = {}

\* C6: with update unset and the version directory already in the cache,
\* install_package writes nothing, never starts the traversal, and ends by
\* printing the skip notice, without error.
C6_SkipWritesNothing ==
    (/\ config # <<>>
     /\ {"name", "version"} \subseteq config[1].keys
     /\ ~argUpdate
     /\ VersionSubpath \in cacheDirs \ writes)
    => /\ writes = {} /\ cacheFiles = {}
       /\ stack = <<>> /\ marked = <<>> /\ discovered = {}
       /\ pc \in {"checked", "exit_clone", "done"}
       /\ pc \in {"exit_clone", "done"} => (printed = "skip" /\ err = NoErr)

\* C6 witness: such a run has ended.
C6_Witness ==
    /\ pc = "done" /\ printed = "skip"
    /\ ~argUpdate /\ V1 \in cacheDirs /\ writes = {}

\* C7: a package directory without typst.toml ends the run in the
\* not-a-package error; a typst.toml without a [package] table, or whose
\* table lacks name, version or entrypoint, ends it in the invalid-manifest
\* error.
C7_IncompleteManifestRejected ==
    (InstallEnded /\ Exists(package_path)) =>
        /\ P_toml \notin files =>
              err = Raise("FileNotFoundError", "No typst.toml in this directory", <<>>)
        /\ (P_toml \in files /\ ~(toml.hasPackage /\ toml.keys = RequiredKeys)) =>
              err = Raise("RuntimeError", "Not a valid typst.toml", <<>>)

\* C8: every path handed to the copy step exists, and typst.toml is among
\* them.
C8_FileSetExists ==
    pc = "copy" => (P_toml \in fileset /\ \A p \in fileset : Exists(p))

\* C9: the url given to the clone is the argument without its first four
\* characters.
C9_UrlIsArgumentAfterPrefix ==
    pc = "clone" => cloneUrl = SubSeq(argPath, 5, Len(argPath))

=============================================================================
